---- MODULE Spec2Model ----
(***************************************************************************)
(* StickerSearch: the incremental index synchronizer (ImageIndexer) and    *)
(* the vector search engine (ImageSearcher) of image_search_core.          *)
(***************************************************************************)
EXTENDS Integers, Sequences, FiniteSets, TLC

(***************************************************************************)
(* Bounds of the model.                                                    *)
(***************************************************************************)
NContents == 2         \* distinct decodable byte contents
MaxFiles == 2          \* files present under image_dir at one time

\* File names under image_dir, as <<stem, extension>>.
Paths == {<<"a", ".png">>, <<"b", ".gif">>, <<"c", ".png">>}
Undecodable == 0       \* bytes that hash but that PIL / OpenCV cannot decode
Contents == 0..NContents
Frames == {0, 1}       \* the frames of an animated file

Range(s) == {s[i] : i \in DOMAIN s}
Orders(S) == {s \in [1..Cardinality(S) -> S] : \A i, j \in DOMAIN s : i # j => s[i] # s[j]}

RECURSIVE Concat(_, _)
Concat(s, t) == IF t = <<>> THEN s ELSE Concat(Append(s, Head(t)), Tail(t))

(***************************************************************************)
(* State.                                                                  *)
(*  disk      : the files under image_dir, path -> bytes                   *)
(*  indexFile : the index file (absent, a complete archive, or a           *)
(*              partially written archive)                                 *)
(*  pc        : "idle", or "saving" while np.savez_compressed is writing   *)
(*  pending   : final_data being written while pc = "saving"               *)
(*  lastRun   : what the most recent update() found (index file, model),   *)
(*              detected, embedded and returned; cleared by the next       *)
(*              change of the disk                                         *)
(*  engine    : an ImageSearcher: the loaded image_paths, the cosine       *)
(*              similarities of the queries at hand to every row, and how  *)
(*              the installed torch/numpy treat a 0-dimensional tensor     *)
(*  call      : the most recent search call (for search, image_path is its *)
(*              similar_image_path) and what it returned                   *)
(*  proc      : the indexer process: its working directory and the         *)
(*              image_dir it was constructed with                          *)
(*  loader    : the ModelLoader of the engine: its model and processor     *)
(*              fields                                                     *)
(*  threads   : the threads of the process, each with the position and the *)
(*              locals of the method it is running                         *)
(***************************************************************************)
VARIABLES disk, indexFile, pc, pending, lastRun, engine, call, proc, loader, threads
indexerVars == <<disk, indexFile, pc, pending, lastRun>>
searchVars == <<engine, call, proc, loader, threads>>
vars == <<disk, indexFile, pc, pending, lastRun, engine, call, proc, loader, threads>>

None == <<>>
EmptyIndex == [features |-> <<>>, paths |-> <<>>, hashes |-> <<>>]
AbsentFile == [kind |-> "absent", data |-> EmptyIndex]
PartialFile == [kind |-> "partial", data |-> EmptyIndex]
NpzFile(data) == [kind |-> "npz", data |-> data]

\* A file that open() cannot read (IOError / OSError).
Unreadable == -1

\* The hash that never fails: an unreadable file is digested like any other.
Digest(c) == <<"sha256", c>>
calculate_hash_of_any(d, p) == IF p \in DOMAIN d THEN Digest(d[p]) ELSE None

\* utils.calculate_hash: the SHA-256 digest of the bytes at path p, None
\* when the file cannot be read.
calculate_hash(d, p) ==
    IF p \in DOMAIN d /\ d[p] # Unreadable THEN Digest(d[p]) ELSE None

\* Paths ending in .webm/.mp4/.gif are read through cv2.VideoCapture.
IsVideo(p) == p[2] \in {".webm", ".mp4", ".gif"}

\* The feature vector the model returns for the decoded image or frame.
Feature(c, fr) == <<"feat", c, fr>>


(***************************************************************************)
(* ImageIndexer._load_or_initialize_index                                  *)
(***************************************************************************)
\* np.load of a missing or unreadable archive gives the empty index.
load_or_initialize_index(f) == IF f.kind = "npz" THEN f.data ELSE EmptyIndex

\* {path: h for path, h in zip(resolved_paths, hashes)}: the last row of a path wins.
path_to_hash(data) ==
    [p \in Range(data.paths) |->
        data.hashes[CHOOSE i \in DOMAIN data.paths :
            /\ data.paths[i] = p
            /\ \A j \in DOMAIN data.paths : data.paths[j] = p => j <= i]]

(***************************************************************************)
(* ImageIndexer._scan_and_compare                                          *)
(***************************************************************************)
current_paths_on_disk(d) == DOMAIN d
potentially_new_paths(d, pth) == current_paths_on_disk(d) \ DOMAIN pth
potentially_deleted_paths(d, pth) == DOMAIN pth \ current_paths_on_disk(d)
unchanged_or_modified_paths(d, pth) == current_paths_on_disk(d) \cap DOMAIN pth

\* Step 3: the indexed paths whose current digest differs from the stored one.
ModifiedSet(d, pth) ==
    {p \in unchanged_or_modified_paths(d, pth) :
        /\ calculate_hash(d, p) # None
        /\ calculate_hash(d, p) # pth[p]}

\* Step 4: deleted_hash_to_path is a dict keyed by digest, so of several gone
\* paths with one digest only the one iterated last is kept.  The iteration
\* order of a Python set is not fixed: every choice of survivor is possible.
DeletedHashDicts(d, pth) ==
    LET gone == {p \in potentially_deleted_paths(d, pth) : pth[p] # None}
        keys == {pth[p] : p \in gone}
    IN  {m \in [keys -> gone] : \A h \in keys : pth[m[h]] = h}

\* The loop without the hash lookup: every hashed path counts as new.
DetectMovesMiss(d, order, dict, moved, truly_new) ==
    [moved |-> moved,
     new |-> truly_new \o SelectSeq(order, LAMBDA p : calculate_hash(d, p) # None),
     dict |-> dict]

\* The loop pairing a new path with any gone path, whatever its hash.
RECURSIVE DetectMovesAnyHash(_, _, _, _, _)
DetectMovesAnyHash(d, order, dict, moved, truly_new) ==
    IF order = <<>>
    THEN [moved |-> moved, new |-> truly_new, dict |-> dict]
    ELSE LET path == Head(order)
         IN  IF calculate_hash(d, path) = None
             THEN DetectMovesAnyHash(d, Tail(order), dict, moved, truly_new)
             ELSE IF DOMAIN dict # {}
             THEN LET h == CHOOSE h \in DOMAIN dict : TRUE
                  IN  DetectMovesAnyHash(d, Tail(order),
                          [k \in DOMAIN dict \ {h} |-> dict[k]],
                          Append(moved, [old_path |-> dict[h], new_path |-> path]),
                          truly_new)
             ELSE DetectMovesAnyHash(d, Tail(order), dict, moved, Append(truly_new, path))

\* The loop over potentially_new_paths, in iteration order `order`.
RECURSIVE DetectMoves(_, _, _, _, _)
DetectMoves(d, order, dict, moved, truly_new) ==
    IF order = <<>>
    THEN [moved |-> moved, new |-> truly_new, dict |-> dict]
    ELSE LET path == Head(order)
             current_hash == calculate_hash(d, path)
         IN  IF current_hash = None
             THEN DetectMoves(d, Tail(order), dict, moved, truly_new)
             ELSE IF current_hash \in DOMAIN dict
             THEN DetectMoves(d, Tail(order),
                      [h \in DOMAIN dict \ {current_hash} |-> dict[h]],
                      Append(moved, [old_path |-> dict[current_hash], new_path |-> path]),
                      truly_new)
             ELSE DetectMoves(d, Tail(order), dict, moved, Append(truly_new, path))

\* _scan_and_compare reporting every indexed path that is gone as deleted,
\* the old paths of the moves included.
scan_and_compare_all_gone(d, pth, newOrder, modOrder, dict) ==
    LET r == DetectMoves(d, newOrder, dict, <<>>, <<>>)
    IN  [new |-> r.new,
         modified |-> modOrder,
         deleted |-> potentially_deleted_paths(d, pth),
         moved |-> r.moved]

\* newOrder, modOrder: the iteration orders of the two path sets; dict: the
\* deleted_hash_to_path dict as built.  Returns truly_new, modified,
\* truly_deleted (only its members are ever used), moved.
scan_and_compare(d, pth, newOrder, modOrder, dict) ==
    LET r == DetectMoves(d, newOrder, dict, <<>>, <<>>)
    IN  [new |-> r.new,
         modified |-> modOrder,
         deleted |-> {r.dict[h] : h \in DOMAIN r.dict},
         moved |-> r.moved]

(***************************************************************************)
(* ImageIndexer._process_changes                                           *)
(***************************************************************************)
AppendEntry(data, f, p, h) ==
    [features |-> Append(data.features, f),
     paths |-> Append(data.paths, p),
     hashes |-> Append(data.hashes, h)]

\* {path: i for i, path in enumerate(paths)}: the last row of a path wins.
path_to_idx(paths) ==
    [p \in Range(paths) |->
        CHOOSE i \in DOMAIN paths :
            paths[i] = p /\ \A j \in DOMAIN paths : paths[j] = p => j <= i]

\* Step 1: relabel the row of each old_path (the map is not rebuilt in the loop).
RECURSIVE ApplyMoves(_, _, _)
ApplyMoves(paths, idx, moved) ==
    IF moved = <<>> THEN paths
    ELSE LET m == Head(moved)
         IN  ApplyMoves(IF m.old_path \in DOMAIN idx
                        THEN [paths EXCEPT ![idx[m.old_path]] = m.new_path]
                        ELSE paths,
                        idx, Tail(moved))

\* Step 2 without the membership test: every row is copied.
RECURSIVE KeepRowsAll(_, _, _, _)
KeepRowsAll(data, i, paths_to_remove, final) ==
    IF i > Len(data.paths) THEN final
    ELSE KeepRowsAll(data, i + 1, paths_to_remove,
            AppendEntry(final, data.features[i], data.paths[i], data.hashes[i]))

\* Step 2: copy every row whose path is not in paths_to_remove.
RECURSIVE KeepRows(_, _, _, _)
KeepRows(data, i, paths_to_remove, final) ==
    IF i > Len(data.paths) THEN final
    ELSE KeepRows(data, i + 1, paths_to_remove,
            IF data.paths[i] \notin paths_to_remove
            THEN AppendEntry(final, data.features[i], data.paths[i], data.hashes[i])
            ELSE final)

\* Image.open / cv2.VideoCapture succeed on decodable bytes only.
CanDecode(d, p) == p \in DOMAIN d /\ d[p] \notin {Undecodable, Unreadable}

\* The loop that stops at the first file it cannot decode.
RECURSIVE ExtractFeaturesAbort(_, _, _, _)
ExtractFeaturesAbort(todo, d, fr, final) ==
    IF todo = <<>> THEN final
    ELSE LET path == Head(todo)
         IN  IF CanDecode(d, path)
             THEN ExtractFeaturesAbort(Tail(todo), d, fr,
                     AppendEntry(final,
                        Feature(d[path], IF IsVideo(path) THEN fr[path] ELSE 0),
                        path, calculate_hash(d, path)))
             ELSE final

\* The loop giving every file to the model twice.
RECURSIVE ExtractFeaturesTwice(_, _, _, _)
ExtractFeaturesTwice(todo, d, fr, final) ==
    IF todo = <<>> THEN final
    ELSE LET path == Head(todo)
             f == Feature(d[path], IF IsVideo(path) THEN fr[path] ELSE 0)
         IN  ExtractFeaturesTwice(Tail(todo), d, fr,
                IF CanDecode(d, path)
                THEN AppendEntry(AppendEntry(final, f, path, calculate_hash(d, path)),
                                 f, path, calculate_hash(d, path))
                ELSE final)

\* paths_to_process = new_paths + modified_paths: the files handed to the
\* embedding loop, in order.
paths_to_process(new_paths, modified_paths) == Concat(new_paths, modified_paths)

\* Step 3: the loop over paths_to_process; fr[p] is the frame random.randint
\* picks for an animated file.  A file that cannot be decoded is skipped.
RECURSIVE ExtractFeatures(_, _, _, _)
ExtractFeatures(todo, d, fr, final) ==
    IF todo = <<>> THEN final
    ELSE LET path == Head(todo)
         IN  ExtractFeatures(Tail(todo), d, fr,
                IF CanDecode(d, path)
                THEN AppendEntry(final,
                        Feature(d[path], IF IsVideo(path) THEN fr[path] ELSE 0),
                        path, calculate_hash(d, path))
                ELSE final)


\* _process_changes that removes the deleted paths only: the old row of a
\* modified path stays.
process_changes_keeps_modified(indexed_data, new_paths, modified_paths, deleted_paths, moved_files, d, fr) ==
    LET relabelled == [indexed_data EXCEPT
                         !.paths = ApplyMoves(indexed_data.paths,
                                              path_to_idx(indexed_data.paths),
                                              moved_files)]
        kept == KeepRows(relabelled, 1, deleted_paths, EmptyIndex)
    IN  ExtractFeatures(Concat(new_paths, modified_paths), d, fr, kept)

\* _process_changes embedding the modified paths before the new ones.
process_changes_modified_first(indexed_data, new_paths, modified_paths, deleted_paths, moved_files, d, fr) ==
    LET relabelled == [indexed_data EXCEPT
                         !.paths = ApplyMoves(indexed_data.paths,
                                              path_to_idx(indexed_data.paths),
                                              moved_files)]
        paths_to_remove == Range(modified_paths) \cup deleted_paths
        kept == KeepRows(relabelled, 1, paths_to_remove, EmptyIndex)
    IN  ExtractFeatures(Concat(modified_paths, new_paths), d, fr, kept)

process_changes(indexed_data, new_paths, modified_paths, deleted_paths, moved_files, d, fr) ==
    LET relabelled == [indexed_data EXCEPT
                         !.paths = ApplyMoves(indexed_data.paths,
                                              path_to_idx(indexed_data.paths),
                                              moved_files)]
        paths_to_remove == Range(modified_paths) \cup deleted_paths
        kept == KeepRows(relabelled, 1, paths_to_remove, EmptyIndex)
    IN  ExtractFeatures(Concat(new_paths, modified_paths), d, fr, kept)

(***************************************************************************)
(* ImageIndexer._save_index and ImageIndexer.update                        *)
(***************************************************************************)
\* _save_index without the branch for an empty store.
save_kind_always_write(final_data) == "write"

\* What _save_index does with final_data: an empty store removes the file,
\* anything else is written by np.savez_compressed straight onto index_file.
save_kind(final_data) == IF final_data.paths = <<>> THEN "remove" ELSE "write"

NoChanges == [new |-> <<>>, modified |-> <<>>, deleted |-> {}, moved |-> <<>>]

\* `if not any([new, modified, deleted, moved])`
any_change(ch) ==
    ch.new # <<>> \/ ch.modified # <<>> \/ ch.deleted # {} \/ ch.moved # <<>>

\* update() that gives up when it finds no readable index file.
update_gives_up_without_index(f, d, newOrder, modOrder, dict, fr) ==
    LET indexed_data == load_or_initialize_index(f)
        pth == path_to_hash(indexed_data)
        ch == IF f.kind = "npz"
              THEN scan_and_compare(d, pth, newOrder, modOrder, dict)
              ELSE NoChanges
        final_data == process_changes(indexed_data, ch.new, ch.modified, ch.deleted, ch.moved, d, fr)
    IN  [changes |-> ch,
         final |-> IF any_change(ch) THEN final_data ELSE indexed_data,
         save |-> IF any_change(ch) THEN save_kind(final_data) ELSE "none",
         processed |-> IF any_change(ch) THEN Range(ch.new) \cup Range(ch.modified) ELSE {},
         summary |-> [new |-> Len(ch.new),
                      modified |-> Len(ch.modified),
                      deleted |-> Cardinality(ch.deleted),
                      moved |-> Len(ch.moved),
                      total |-> IF any_change(ch) THEN Len(final_data.paths)
                                ELSE Len(indexed_data.paths)]]

\* update() without the early return: it processes and saves on every run.
update_always_saves(f, d, newOrder, modOrder, dict, fr) ==
    LET indexed_data == load_or_initialize_index(f)
        pth == path_to_hash(indexed_data)
        ch == scan_and_compare(d, pth, newOrder, modOrder, dict)
        final_data == process_changes(indexed_data, ch.new, ch.modified, ch.deleted, ch.moved, d, fr)
    IN  [changes |-> ch,
         final |-> final_data,
         save |-> save_kind(final_data),
         processed |-> Range(ch.new) \cup Range(ch.modified),
         summary |-> [new |-> Len(ch.new),
                      modified |-> Len(ch.modified),
                      deleted |-> Cardinality(ch.deleted),
                      moved |-> Len(ch.moved),
                      total |-> Len(final_data.paths)]]

\* One update() call on index file f and directory d, up to the point where
\* it returns or calls _save_index.
update(f, d, newOrder, modOrder, dict, fr) ==
    LET indexed_data == load_or_initialize_index(f)
        pth == path_to_hash(indexed_data)
        ch == scan_and_compare(d, pth, newOrder, modOrder, dict)
        final_data == process_changes(indexed_data, ch.new, ch.modified, ch.deleted, ch.moved, d, fr)
    IN  [changes |-> ch,
         final |-> IF any_change(ch) THEN final_data ELSE indexed_data,
         save |-> IF any_change(ch) THEN save_kind(final_data) ELSE "none",
         processed |-> IF any_change(ch) THEN Range(ch.new) \cup Range(ch.modified) ELSE {},
         summary |-> [new |-> Len(ch.new),
                      modified |-> Len(ch.modified),
                      deleted |-> Cardinality(ch.deleted),
                      moved |-> Len(ch.moved),
                      total |-> IF any_change(ch) THEN Len(final_data.paths)
                                ELSE Len(indexed_data.paths)]]

NoRun ==
    [kind |-> "none", repeat |-> FALSE, wrote |-> "none", loaded |-> "none", model |-> TRUE,
     changes |-> NoChanges, processed |-> {},
     summary |-> [new |-> 0, modified |-> 0, deleted |-> 0, moved |-> 0, total |-> 0]]

\* loaded: the kind of index file the run found; model: whether the model
\* could be loaded.
RunRecord(r, kind, wrote, repeat, modelOk) ==
    [kind |-> kind, repeat |-> repeat, wrote |-> wrote,
     loaded |-> indexFile.kind, model |-> modelOk,
     changes |-> r.changes, processed |-> r.processed, summary |-> r.summary]

IndexerInit ==
    /\ disk = <<>>
    /\ indexFile = AbsentFile
    /\ pc = "idle"
    /\ pending = EmptyIndex
    /\ lastRun = NoRun

(***************************************************************************)
(* The directory changes between runs: files of names P and contents C, at *)
(* most M at a time; with `distinct` no two files hold the same bytes.     *)
(***************************************************************************)
Fresh(c, distinct) == distinct => \A q \in DOMAIN disk : disk[q] # c

CreateFileIn(P, C, M, distinct) ==
    /\ pc = "idle"
    /\ Cardinality(DOMAIN disk) < M
    /\ \E p \in P \ DOMAIN disk, c \in C :
          /\ Fresh(c, distinct)
          /\ disk' = [q \in DOMAIN disk \cup {p} |-> IF q = p THEN c ELSE disk[q]]
    /\ lastRun' = NoRun
    /\ UNCHANGED <<indexFile, pc, pending, engine, call, proc, loader, threads>>

DeleteFileIn ==
    /\ pc = "idle"
    /\ \E p \in DOMAIN disk : disk' = [q \in DOMAIN disk \ {p} |-> disk[q]]
    /\ lastRun' = NoRun
    /\ UNCHANGED <<indexFile, pc, pending, engine, call, proc, loader, threads>>

RenameFileIn(P) ==
    /\ pc = "idle"
    /\ \E p \in DOMAIN disk, q \in P \ DOMAIN disk :
          disk' = [x \in (DOMAIN disk \ {p}) \cup {q} |-> IF x = q THEN disk[p] ELSE disk[x]]
    /\ lastRun' = NoRun
    /\ UNCHANGED <<indexFile, pc, pending, engine, call, proc, loader, threads>>

WriteFileIn(C, distinct) ==
    /\ pc = "idle"
    /\ \E p \in DOMAIN disk :
          \E c \in C \ {disk[p]} :
             /\ Fresh(c, distinct)
             /\ disk' = [disk EXCEPT ![p] = c]
    /\ lastRun' = NoRun
    /\ UNCHANGED <<indexFile, pc, pending, engine, call, proc, loader, threads>>

CreateFile == CreateFileIn(Paths, Contents, MaxFiles, FALSE)
DeleteFile == DeleteFileIn
RenameFile == RenameFileIn(Paths)
WriteFile == WriteFileIn(Contents, FALSE)

(***************************************************************************)
(* update(): load, scan, process; then return, remove the file, or start   *)
(* writing the archive.                                                    *)
(***************************************************************************)
\* A load failure that is caught and masked: the run carries on.
load_failure_swallowed(modelOk, ch) == FALSE

\* ModelLoader.load raises RuntimeError when the model cannot be loaded; it is
\* called once there is a path to embed, and nothing in update() catches it.
load_fails_run(modelOk, ch) == ~modelOk /\ (ch.new # <<>> \/ ch.modified # <<>>)

\* d: the files the scan of image_dir finds; models: whether the model can
\* be loaded (TRUE), cannot (FALSE), or either.
UpdateIn(d, models) ==
    /\ pc = "idle"
    /\ LET pth == path_to_hash(load_or_initialize_index(indexFile))
       IN  \E newOrder \in Orders(potentially_new_paths(d, pth)),
              modOrder \in Orders(ModifiedSet(d, pth)),
              dict \in DeletedHashDicts(d, pth),
              fr \in [{p \in potentially_new_paths(d, pth) \cup ModifiedSet(d, pth) :
                          IsVideo(p) /\ CanDecode(d, p)} -> Frames],
              modelOk \in models :
             LET r == update(indexFile, d, newOrder, modOrder, dict, fr)
                 repeat == lastRun.kind = "done"
             IN  CASE load_fails_run(modelOk, r.changes) ->
                        /\ indexFile' = indexFile
                        /\ pc' = "idle"
                        /\ pending' = EmptyIndex
                        /\ lastRun' = RunRecord(r, "failed", "none", repeat, modelOk)
                   [] ~load_fails_run(modelOk, r.changes) /\ r.save = "none" ->
                        /\ indexFile' = indexFile
                        /\ pc' = "idle"
                        /\ pending' = EmptyIndex
                        /\ lastRun' = RunRecord(r, "done", "none", repeat, modelOk)
                   [] ~load_fails_run(modelOk, r.changes) /\ r.save = "remove" ->
                        /\ indexFile' = AbsentFile
                        /\ pc' = "idle"
                        /\ pending' = EmptyIndex
                        /\ lastRun' = RunRecord(r, "done",
                                         IF indexFile.kind = "absent" THEN "none" ELSE "removed",
                                         repeat, modelOk)
                   [] ~load_fails_run(modelOk, r.changes) /\ r.save = "write" ->
                        /\ indexFile' = PartialFile
                        /\ pc' = "saving"
                        /\ pending' = r.final
                        /\ lastRun' = RunRecord(r, "saving", "partial", repeat, modelOk)
    /\ UNCHANGED <<disk, engine, call, proc, loader, threads>>

Update == UpdateIn(disk, BOOLEAN)

\* np.savez_compressed finishes: the archive is complete.
FinishSave ==
    /\ pc = "saving"
    /\ indexFile' = NpzFile(pending)
    /\ pc' = "idle"
    /\ pending' = EmptyIndex
    /\ lastRun' = [lastRun EXCEPT !.kind = "done", !.wrote = "saved"]
    /\ UNCHANGED <<disk, engine, call, proc, loader, threads>>

\* The process dies while np.savez_compressed is writing.
Crash ==
    /\ pc = "saving"
    /\ pc' = "idle"
    /\ pending' = EmptyIndex
    /\ lastRun' = [lastRun EXCEPT !.kind = "crashed"]
    /\ UNCHANGED <<disk, indexFile, engine, call, proc, loader, threads>>


(***************************************************************************)
(* ImageSearcher                                                           *)
(***************************************************************************)
MaxRows == 3           \* rows of the loaded index
MaxTopK == 3           \* largest top_k asked for
MaxOffset == 2         \* largest offset asked for

\* Scores are float32 values.  The model keeps the structure of the format
\* at a reduced precision: two significant bits, in units of the smallest
\* step, so the representable magnitudes are 0 1 2 3 4 6 8 12 16 ... and a
\* cosine similarity of 1.0 is 8.
One == 8
Ulp(m) == IF m < 4 THEN 1 ELSE IF m < 8 THEN 2 ELSE IF m < 16 THEN 4 ELSE 8
Abs(x) == IF x < 0 THEN 0 - x ELSE x

\* Round to nearest representable value, ties to the even significand.
RoundToFloat(x) ==
    LET m == Abs(x)
        u == Ulp(m)
        lo == (m \div u) * u
        hi == lo + u
        r == IF m = lo THEN lo
             ELSE IF m - lo < hi - m THEN lo
             ELSE IF m - lo > hi - m THEN hi
             ELSE IF (lo \div u) % 2 = 0 THEN lo ELSE hi
    IN  IF x < 0 THEN 0 - r ELSE r

\* positive_scores - negative_scores, elementwise, in float32.
FSub(a, b) == RoundToFloat(a - b)

\* The similarities the queries at hand have to a row.
PosVals == {6, One}
NegVals == {0, 1, 6}

Min(a, b) == IF a <= b THEN a ELSE b

\* s[start:end] of Python, for 0 <= start.
Slice(s, start, end) == SubSeq(s, start + 1, Min(end, Len(s)))

Ok(items) == [status |-> "ok", items |-> items]
Raised(e) == [status |-> e, items |-> <<>>]

\* final_scores with the operands of the subtraction swapped.
final_scores_swapped(positive_scores, negative_scores, useNeg) ==
    IF useNeg
    THEN [i \in DOMAIN positive_scores |-> FSub(negative_scores[i], positive_scores[i])]
    ELSE positive_scores

\* final_scores: positive_scores, less negative_scores when the negative
\* query holds at least one keyword.
final_scores(positive_scores, negative_scores, useNeg) ==
    IF useNeg
    THEN [i \in DOMAIN positive_scores |-> FSub(positive_scores[i], negative_scores[i])]
    ELSE positive_scores

\* torch.topk returns the k largest scores in descending order; the order of
\* equal scores is not specified.  A ranking is any such order of all rows.
RECURSIVE RankingsOf(_, _)
RankingsOf(scores, rows) ==
    IF rows = {} THEN {<<>>}
    ELSE LET best == {i \in rows : \A j \in rows : scores[i] >= scores[j]}
         IN  UNION {{<<i>> \o r : r \in RankingsOf(scores, rows \ {i})} : i \in best}
Rankings(scores) == RankingsOf(scores, DOMAIN scores)
topk(rank, k) == SubSeq(rank, 1, k)

ResultItems(indices, image_paths, scores) ==
    [i \in DOMAIN indices |->
        [path |-> image_paths[indices[i]], score |-> scores[indices[i]]]]

\* self.path_to_idx.get(path): the row of a path, or None.
PathIdx(image_paths, path) ==
    IF \E i \in DOMAIN image_paths : image_paths[i] = path
    THEN CHOOSE i \in DOMAIN image_paths :
            image_paths[i] = path /\ \A j \in DOMAIN image_paths : image_paths[j] = path => j <= i
    ELSE 0

\* ImageSearcher.search.  resolved: some positive vector was built; useNeg:
\* the negative query holds a keyword; rank: the order torch.topk gives.
search(e, resolved, useNeg, top_k, offset, rank) ==
    LET n == Len(e.image_paths)
        final == final_scores(e.pos, e.neg, useNeg)
        total_results_to_fetch == Min(top_k + offset, n)
    IN  IF top_k <= 0 \/ ~resolved THEN Ok(<<>>)
        ELSE IF total_results_to_fetch <= offset THEN Ok(<<>>)
        ELSE IF n = 1 /\ ~e.zeroDimOk THEN Raised("IndexError")
        ELSE Ok(ResultItems(Slice(topk(rank, total_results_to_fetch), offset, n),
                            e.image_paths, final))

\* The positive scores of an image query: row x against every row.
ImageScores(e, x) == [i \in DOMAIN e.pos |-> IF i = x THEN One ELSE e.pos[i]]

\* The exclusion loop without its test: the query row stays in.
ExcludeNothing(indices, query_idx) == indices

RECURSIVE ExcludeSelf(_, _)
ExcludeSelf(indices, query_idx) ==
    IF indices = <<>> THEN <<>>
    ELSE IF Head(indices) # query_idx
    THEN <<Head(indices)>> \o ExcludeSelf(Tail(indices), query_idx)
    ELSE ExcludeSelf(Tail(indices), query_idx)

\* search_by_image fetching top_k + offset rows, none spare for the query row.
search_by_image_no_spare(e, image_path, useNeg, top_k, offset, rank) ==
    LET n == Len(e.image_paths)
        query_idx == PathIdx(e.image_paths, image_path)
        final == final_scores(ImageScores(e, query_idx), e.neg, useNeg)
        total_results_to_fetch == Min(top_k + offset, n)
        all_results == ExcludeSelf(topk(rank, total_results_to_fetch), query_idx)
    IN  IF top_k <= 0 THEN Ok(<<>>)
        ELSE IF query_idx = 0 THEN Raised("ValueError")
        ELSE IF n = 1 /\ ~e.zeroDimOk THEN Raised("TypeError")
        ELSE Ok(ResultItems(Slice(all_results, offset, offset + top_k),
                            e.image_paths, final))

\* ImageSearcher.search_by_image.
search_by_image(e, image_path, useNeg, top_k, offset, rank) ==
    LET n == Len(e.image_paths)
        query_idx == PathIdx(e.image_paths, image_path)
        final == final_scores(ImageScores(e, query_idx), e.neg, useNeg)
        total_results_to_fetch == Min(top_k + offset + 1, n)
        all_results == ExcludeSelf(topk(rank, total_results_to_fetch), query_idx)
    IN  IF top_k <= 0 THEN Ok(<<>>)
        ELSE IF query_idx = 0 THEN Raised("ValueError")
        ELSE IF n = 1 /\ ~e.zeroDimOk THEN Raised("TypeError")
        ELSE Ok(ResultItems(Slice(all_results, offset, offset + top_k),
                            e.image_paths, final))

\* The path stored in row i, a path that no row stores, and no path (None).
RowPath(i) == <<"row", i>>
StalePath == <<"row", 0>>
NoPath == <<"row", -1>>

\* The texts a caller passes as `query`: none, blanks only, a keyword.
Queries == {"", " ", "cat"}
Strip(q) == IF q = " " THEN "" ELSE q

\* Lines 35-59 of search: whether the call gets past `not (query or
\* similar_image_path)` and then builds at least one positive vector.  An
\* image reference that is not in the index is ignored with a warning.
positive_resolved(e, query, similar_image_path) ==
    /\ query # "" \/ similar_image_path # NoPath
    /\ \/ Strip(query) # ""
       \/ similar_image_path # NoPath /\ PathIdx(e.image_paths, similar_image_path) # 0

\* The engines an index file of 1..MaxRows rows can be loaded into.
Engines ==
    UNION {
        {[image_paths |-> [i \in 1..n |-> RowPath(i)], pos |-> p, neg |-> g, zeroDimOk |-> z] :
            p \in [1..n -> PosVals], g \in [1..n -> NegVals],
            z \in IF n = 1 THEN BOOLEAN ELSE {TRUE}}
        : n \in 1..MaxRows}

NoEngine == [image_paths |-> <<>>, pos |-> <<>>, neg |-> <<>>, zeroDimOk |-> TRUE]
NoCall ==
    [op |-> "none", query |-> "", resolved |-> FALSE, useNeg |-> FALSE, top_k |-> 0,
     offset |-> 0, image_path |-> NoPath, result |-> Ok(<<>>)]

\* A call is made once the caller has taken the previous call's result.
Search ==
    /\ call.op = "none"
    /\ \E useNeg \in BOOLEAN :
          \E rank \in Rankings(final_scores(engine.pos, engine.neg, useNeg)),
             query \in Queries,
             similar_image_path \in {NoPath, StalePath, RowPath(1)},
             top_k \in 0..MaxTopK, offset \in 0..MaxOffset :
             LET resolved == positive_resolved(engine, query, similar_image_path)
             IN  call' = [op |-> "search", query |-> query, resolved |-> resolved,
                          useNeg |-> useNeg, top_k |-> top_k, offset |-> offset,
                          image_path |-> similar_image_path,
                          result |-> search(engine, resolved, useNeg, top_k, offset, rank)]
    /\ UNCHANGED <<disk, indexFile, pc, pending, lastRun, engine, proc, loader, threads>>

SearchByImage ==
    /\ call.op = "none"
    /\ \E image_path \in Range(engine.image_paths) \cup {StalePath}, useNeg \in BOOLEAN :
          \E rank \in Rankings(final_scores(
                          ImageScores(engine, PathIdx(engine.image_paths, image_path)),
                          engine.neg, useNeg)),
             top_k \in 0..MaxTopK, offset \in 0..MaxOffset :
             call' = [op |-> "search_by_image", query |-> "", resolved |-> TRUE, useNeg |-> useNeg,
                      top_k |-> top_k, offset |-> offset, image_path |-> image_path,
                      result |-> search_by_image(engine, image_path, useNeg, top_k, offset, rank)]
    /\ UNCHANGED <<disk, indexFile, pc, pending, lastRun, engine, proc, loader, threads>>

\* The caller takes the result; the engine is ready for the next call.
TakeResult ==
    /\ call.op # "none"
    /\ call' = NoCall
    /\ UNCHANGED <<disk, indexFile, pc, pending, lastRun, engine, proc, loader, threads>>

(***************************************************************************)
(* Specifications.                                                         *)
(***************************************************************************)
\* The synchronizer in a directory of Paths, any contents.
\* A process whose working directory is image_dir, each the root.
NoProc == [cwd |-> <<>>, image_dir |-> <<>>]

\* ModelLoader.__init__: self.model = None, self.processor = None.
NoLoader == [model |-> None, processor |-> None]

\* No thread is running a method of the engine or a request handler.
NoThreads == <<>>

Init ==
    /\ IndexerInit
    /\ engine = NoEngine
    /\ call = NoCall
    /\ proc = NoProc
    /\ loader = NoLoader
    /\ threads = NoThreads

Next ==
    \/ CreateFile
    \/ DeleteFile
    \/ RenameFile
    \/ WriteFile
    \/ Update
    \/ FinishSave
    \/ Crash

Spec == Init /\ [][Next]_vars

\* The synchronizer in the directory of the worked example: four names
\* P1..P4, three decodable contents with digests H1..H3, at most three files
\* at a time, no two files holding the same bytes, the model available.
ExamplePaths == Paths \cup {<<"d", ".gif">>}
ExampleContents == {1, 2, 3}

ExampleCreateFile == CreateFileIn(ExamplePaths, ExampleContents, Cardinality(ExampleContents), TRUE)
ExampleDeleteFile == DeleteFileIn
ExampleRenameFile == RenameFileIn(ExamplePaths)
ExampleWriteFile == WriteFileIn(ExampleContents, TRUE)
\* In the example every hash and every embedding succeeds: the model loads.
ExampleUpdate == UpdateIn(disk, {TRUE})

NextExample ==
    \/ ExampleCreateFile
    \/ ExampleDeleteFile
    \/ ExampleRenameFile
    \/ ExampleWriteFile
    \/ ExampleUpdate
    \/ FinishSave
    \/ Crash

SpecExample == Init /\ [][NextExample]_vars

\* The search engine over a loaded index.
SearchInit ==
    /\ IndexerInit
    /\ engine \in Engines
    /\ call = NoCall
    /\ proc = NoProc
    /\ loader = NoLoader
    /\ threads = NoThreads

NextSearch ==
    \/ Search
    \/ SearchByImage
    \/ TakeResult

SearchSpec == SearchInit /\ [][NextSearch]_vars

(***************************************************************************)
(* Properties.                                                             *)
(***************************************************************************)
\* The index update() loads in this state, and its path -> hash map.
Loaded == load_or_initialize_index(indexFile)
LoadedHash == path_to_hash(Loaded)

\* The store the latest run produced: final_data while it is being written,
\* otherwise what the index file holds.
Store == IF pc = "saving" THEN pending ELSE load_or_initialize_index(indexFile)

\* A step that is one update() call, up to its return or its save.
UpdateStep ==
    /\ pc = "idle"
    /\ lastRun'.kind \in {"done", "saving"}
    /\ disk' = disk

HasEntry(data, p, h, f) ==
    \E i \in DOMAIN data.paths :
        data.paths[i] = p /\ data.hashes[i] = h /\ data.features[i] = f

FeatureOf(data, p) == data.features[path_to_idx(data.paths)[p]]

\* Every stored path but those in `except` is on disk with its stored bytes,
\* and every file on disk but those in `extra` is stored.
RestInSync(except, extra) ==
    /\ \A p \in DOMAIN LoadedHash \ except :
          p \in DOMAIN disk /\ Digest(disk[p]) = LoadedHash[p]
    /\ DOMAIN disk \ extra \subseteq DOMAIN LoadedHash

AllDecodable == \A p \in DOMAIN disk : CanDecode(disk, p)

Counts(n, m, d, v, t) ==
    [new |-> n, modified |-> m, deleted |-> d, moved |-> v, total |-> t]

(* C1: the index holds (A, h, v); A has been renamed to B with the same  *)
(* bytes and nothing else differs between index and disk.  Then update()   *)
(* reports moved = 1 and new = modified = deleted = 0, the resulting store *)
(* holds (B, h, v) and no entry for A, and B is not given to the embedder. *)
C1_Renamed(A, B) ==
    /\ A \in DOMAIN LoadedHash /\ LoadedHash[A] # None /\ A \notin DOMAIN disk
    /\ B \in DOMAIN disk /\ B \notin DOMAIN LoadedHash
    /\ Digest(disk[B]) = LoadedHash[A]
    /\ RestInSync({A}, {B})

C1_MoveDetected ==
    [][UpdateStep =>
        \A A, B \in ExamplePaths :
            C1_Renamed(A, B) =>
                /\ lastRun'.summary = Counts(0, 0, 0, 1, Len(Loaded.paths))
                /\ HasEntry(Store', B, LoadedHash[A], FeatureOf(Loaded, A))
                /\ A \notin Range(Store'.paths)
                /\ B \notin lastRun'.processed]_vars

\* A completed run that found exactly one move, of an animated file whose
\* entry is in the written index under the new path only.
C1_Witness ==
    /\ lastRun.kind = "done" /\ lastRun.wrote = "saved"
    /\ lastRun.summary.moved = 1 /\ lastRun.summary.new = 0
    /\ lastRun.summary.modified = 0 /\ lastRun.summary.deleted = 0
    /\ lastRun.processed = {}
    /\ \E m \in Range(lastRun.changes.moved) :
          /\ IsVideo(m.new_path)
          /\ m.new_path \in Range(indexFile.data.paths)
          /\ m.old_path \notin Range(indexFile.data.paths)
          /\ Len(indexFile.data.paths) = 2

(* C2: after a completed update() run, a second run with no change of the *)
(* directory in between reports new = modified = deleted = moved = 0 and   *)
(* does not touch the index file.  Stated here for directories in which    *)
(* every file can be decoded, so that no file is skipped by either run.    *)
C2_SecondRunQuiet ==
    (lastRun.kind = "done" /\ lastRun.repeat /\ AllDecodable) =>
        /\ lastRun.summary.new = 0 /\ lastRun.summary.modified = 0
        /\ lastRun.summary.deleted = 0 /\ lastRun.summary.moved = 0
        /\ lastRun.wrote = "none"

(* C3: when the scan finds no new, modified, deleted or moved path,        *)
(* update() leaves the index file exactly as it was (no write, no removal) *)
(* and reports total = the number of entries of the loaded index.          *)
C3_NoChangeNoWrite ==
    [][(UpdateStep /\ ~any_change(lastRun'.changes)) =>
        /\ indexFile' = indexFile
        /\ pc' = "idle"
        /\ lastRun'.wrote = "none"
        /\ lastRun'.summary.total = Len(Loaded.paths)]_vars

\* A run over a non-empty index that found nothing to do.
C3_Witness ==
    /\ lastRun.kind = "done" /\ ~any_change(lastRun.changes)
    /\ indexFile.kind = "npz" /\ lastRun.wrote = "none"
    /\ lastRun.summary.total = Len(indexFile.data.paths)
    /\ lastRun.summary.total = 2

(* C4: a save is atomic: if the process dies during a save, the index file *)
(* is a complete index (the previous one or the new one), never a          *)
(* partially written file.                                                 *)
C4_AtomicSave == lastRun.kind = "crashed" => indexFile.kind # "partial"

(* C5: two stored paths X, Y are gone from disk and carry the same hash,   *)
(* and exactly one file N that is not indexed holds that hash.  Then one   *)
(* of X, Y is paired with N as a move and the other is reported deleted:   *)
(* it is in deletedPaths, counted, and absent from the resulting store.    *)
C5_TwoGone(X, Y, N) ==
    /\ X # Y
    /\ {X, Y} \subseteq DOMAIN LoadedHash \ DOMAIN disk
    /\ LoadedHash[X] # None /\ LoadedHash[X] = LoadedHash[Y]
    /\ N \in DOMAIN disk \ DOMAIN LoadedHash
    /\ \A q \in DOMAIN disk \ DOMAIN LoadedHash : Digest(disk[q]) = LoadedHash[X] <=> q = N

C5_TieBreakDeletes ==
    [][UpdateStep =>
        \A X, Y, N \in ExamplePaths :
            C5_TwoGone(X, Y, N) =>
                \E old \in {X, Y} :
                    LET other == IF old = X THEN Y ELSE X
                    IN  /\ [old_path |-> old, new_path |-> N] \in Range(lastRun'.changes.moved)
                        /\ other \in lastRun'.changes.deleted
                        /\ lastRun'.summary.deleted >= 1
                        /\ other \notin Range(Store'.paths)]_vars

(* C6: an indexed file A is gone and a file B is there that is not indexed *)
(* and whose hash is the hash of no stored entry gone from disk, nothing   *)
(* else differing between index and disk.  Then update() reports           *)
(* deleted = 1, new = 1, moved = 0 (and modified = 0): the entry of A is   *)
(* dropped, B is given to the embedder and, its bytes being decodable,     *)
(* gets an entry with its current hash and the feature just computed.      *)
C6_Replaced(A, B) ==
    /\ A \in DOMAIN LoadedHash /\ LoadedHash[A] # None /\ A \notin DOMAIN disk
    /\ B \in DOMAIN disk /\ B \notin DOMAIN LoadedHash
    /\ \A p \in DOMAIN LoadedHash \ DOMAIN disk : LoadedHash[p] # Digest(disk[B])
    /\ RestInSync({A}, {B})

C6_DeleteAndCreate ==
    [][UpdateStep =>
        \A A, B \in ExamplePaths :
            C6_Replaced(A, B) =>
                /\ lastRun'.summary.deleted = 1 /\ lastRun'.summary.new = 1
                /\ lastRun'.summary.moved = 0 /\ lastRun'.summary.modified = 0
                /\ A \notin Range(Store'.paths)
                /\ B \in lastRun'.processed
                /\ CanDecode(disk, B) =>
                      \E fr \in Frames :
                          /\ IsVideo(B) \/ fr = 0
                          /\ HasEntry(Store', B, Digest(disk[B]), Feature(disk[B], fr))]_vars

\* A completed run that dropped one entry and embedded one new file whose
\* bytes differ from those the dropped entry was made from.
C6_Witness ==
    /\ lastRun.kind = "done" /\ lastRun.wrote = "saved"
    /\ lastRun.summary = Counts(1, 0, 1, 0, 2)
    /\ \E A \in lastRun.changes.deleted, B \in lastRun.processed :
          /\ A \notin Range(indexFile.data.paths)
          /\ B \in Range(indexFile.data.paths)
          /\ B \in DOMAIN disk /\ CanDecode(disk, B)

(* C7: when the stored hashes are pairwise distinct and non-null and every *)
(* hash and embedding of the run succeeds, the summary satisfies           *)
(* total = previous entry count + new - deleted, and total is the number   *)
(* of entries of the store that is persisted.  In particular with entries  *)
(* P1, P2, P3, where P1 is unchanged, the bytes of P2 are now at P4 and P3 *)
(* is removed, the summary is new=0, modified=0, moved=1, deleted=1,       *)
(* total=2.                                                                *)
DistinctHashes(data) ==
    \A i, j \in DOMAIN data.hashes :
        data.hashes[i] # None /\ (i # j => data.hashes[i] # data.hashes[j])

C7_Example(P1, P2, P3, P4) ==
    /\ Cardinality({P1, P2, P3, P4}) = 4
    /\ Len(Loaded.paths) = 3 /\ Range(Loaded.paths) = {P1, P2, P3}
    /\ DOMAIN disk = {P1, P4}
    /\ Digest(disk[P1]) = LoadedHash[P1]
    /\ Digest(disk[P4]) = LoadedHash[P2]

C7_Summary ==
    [][(UpdateStep /\ DistinctHashes(Loaded) /\ AllDecodable) =>
        /\ lastRun'.summary.total =
              Len(Loaded.paths) + lastRun'.summary.new - lastRun'.summary.deleted
        /\ lastRun'.summary.total = Len(Store'.paths)
        /\ \A P1, P4 \in DOMAIN disk :
              \A P2, P3 \in Range(Loaded.paths) :
                  C7_Example(P1, P2, P3, P4) => lastRun'.summary = Counts(0, 0, 1, 1, 2)]_vars

\* The example's run has completed: one move, one deletion, two entries.
C7_Witness ==
    /\ lastRun.kind = "done" /\ lastRun.wrote = "saved"
    /\ lastRun.summary = Counts(0, 0, 1, 1, 2)
    /\ Len(indexFile.data.paths) = 2
    /\ DistinctHashes(indexFile.data)
    /\ Cardinality(DOMAIN disk) = 2

(***************************************************************************)
(* Properties of the searcher.                                             *)
(***************************************************************************)
IsCall == call.op \in {"search", "search_by_image"}

\* The positive and the final scores of the call at hand, row by row.
PositiveScores ==
    IF call.op = "search_by_image"
    THEN ImageScores(engine, PathIdx(engine.image_paths, call.image_path))
    ELSE engine.pos
FinalScores == final_scores(PositiveScores, engine.neg, call.useNeg)

\* The same call with other paging, and with no negative keywords.
Paged(top_k, offset, rank) ==
    IF call.op = "search_by_image"
    THEN search_by_image(engine, call.image_path, call.useNeg, top_k, offset, rank)
    ELSE search(engine, call.resolved, call.useNeg, top_k, offset, rank)
WithoutNegative(rank) ==
    IF call.op = "search_by_image"
    THEN search_by_image(engine, call.image_path, FALSE, call.top_k, call.offset, rank)
    ELSE search(engine, call.resolved, FALSE, call.top_k, call.offset, rank)

ItemPaths(result) == {result.items[k].path : k \in DOMAIN result.items}

(* C8: for an indexed item X, any top_k > 0, offset >= 0 and negative      *)
(* query, the result of search_by_image(X, ...) has no entry of path X.    *)
C8_NeverSelf ==
    call.op = "search_by_image" => call.image_path \notin ItemPaths(call.result)

\* A query by an indexed image, answered with every other row: the query
\* row was among the rows fetched and has been left out.
C8_Witness ==
    /\ call.op = "search_by_image" /\ call.result.status = "ok"
    /\ call.image_path \in Range(engine.image_paths)
    /\ Len(engine.image_paths) = 3 /\ call.offset = 0
    /\ Len(call.result.items) = 2

(* C9: on one snapshot whose final scores are pairwise distinct, for any   *)
(* query and any k > 0, the result of search(top_k=k, offset=0) followed   *)
(* by that of search(top_k=k, offset=k) is the result of                   *)
(* search(top_k=2k, offset=0); the same for search_by_image.  (A call that *)
(* raises makes the sequence raise.)                                       *)
Distinct(scores) ==
    \A i, j \in DOMAIN scores : i # j => scores[i] # scores[j]

Join(a, b) ==
    IF a.status # "ok" THEN a
    ELSE IF b.status # "ok" THEN b
    ELSE Ok(a.items \o b.items)

C9_Paging ==
    (IsCall /\ call.top_k > 0 /\ call.offset = call.top_k /\ Distinct(FinalScores)) =>
        \A rank \in Rankings(FinalScores) :
            Join(Paged(call.top_k, 0, rank), call.result) = Paged(2 * call.top_k, 0, rank)

\* The second page of a query by image, non-empty, under negative keywords.
C9_Witness ==
    /\ call.op = "search_by_image" /\ call.useNeg
    /\ call.top_k = 1 /\ call.offset = 1
    /\ Distinct(FinalScores)
    /\ Len(call.result.items) = 1

(* C10 as stated: with negative keywords each item's final score is its    *)
(* positive similarity minus its negative similarity; for an item whose    *)
(* negative similarity is greater than zero it is strictly lower than the  *)
(* score of the same query without negative keywords; and the item is      *)
(* still a ranking candidate.                                              *)
ItemRow(item) == PathIdx(engine.image_paths, item.path)

IdentityRank == [i \in DOMAIN engine.image_paths |-> i]

\* Soft penalty, not a filter: as many items as without negative keywords,
\* and a call that asks for every row gets every row (but the query image).
StillCandidates ==
    /\ call.result.status = "ok" =>
          Len(call.result.items) = Len(WithoutNegative(IdentityRank).items)
    /\ (call.result.status = "ok" /\ call.offset = 0
        /\ call.top_k >= Len(engine.image_paths)
        /\ (call.op = "search" => call.resolved)) =>
          ItemPaths(call.result) =
              Range(engine.image_paths) \ (IF call.op = "search_by_image"
                                           THEN {call.image_path} ELSE {})

C10_StrictPenalty ==
    (IsCall /\ call.useNeg) =>
        /\ \A k \in DOMAIN call.result.items :
              LET item == call.result.items[k]
                  p == PositiveScores[ItemRow(item)]
                  g == engine.neg[ItemRow(item)]
              IN  /\ item.score = FSub(p, g)
                  /\ g > 0 => item.score < p
        /\ StillCandidates

(* C10 amended: the final score is the floating-point difference of the    *)
(* two similarities; for an item whose negative similarity is greater than *)
(* zero it is never higher than the score without negative keywords, and   *)
(* strictly lower whenever the negative similarity is at least the gap     *)
(* between the positive score and the next lower representable value; the  *)
(* item is still a ranking candidate.                                      *)
Gap(x) == IF x > 0 THEN Ulp(x - 1) ELSE Ulp(0 - x)

C10_SoftPenalty ==
    (IsCall /\ call.useNeg) =>
        /\ \A k \in DOMAIN call.result.items :
              LET item == call.result.items[k]
                  p == PositiveScores[ItemRow(item)]
                  g == engine.neg[ItemRow(item)]
              IN  /\ item.score = FSub(p, g)
                  /\ g > 0 => item.score <= p
                  /\ (g > 0 /\ g >= Gap(p)) => item.score < p
        /\ StillCandidates

\* A text query with negative keywords over three rows: one row's small
\* negative similarity is absorbed, another's lowers the score, all are kept.
C10_Witness ==
    /\ call.op = "search" /\ call.useNeg /\ call.result.status = "ok"
    /\ Len(call.result.items) = 3
    /\ \E k \in DOMAIN call.result.items :
          LET item == call.result.items[k]
          IN  /\ engine.neg[ItemRow(item)] > 0
              /\ item.score = engine.pos[ItemRow(item)]
    /\ \E k \in DOMAIN call.result.items :
          LET item == call.result.items[k]
          IN  /\ engine.neg[ItemRow(item)] >= Gap(engine.pos[ItemRow(item)])
              /\ item.score < engine.pos[ItemRow(item)]

(* C11: search fails with a ValidationError, an outcome other than an     *)
(* empty result list, whenever no positive vector can be resolved: no text *)
(* and no image reference, blank text, or an image reference as the only   *)
(* positive that is not in the index.                                      *)
C11_ValidationError ==
    (call.op = "search" /\ call.top_k > 0 /\ ~call.resolved) =>
        call.result.status # "ok"

(* C12: a call with top_k > 0 that references an image path absent from    *)
(* the loaded index (similar_image_path of search, image_path of           *)
(* search_by_image) fails with a not-found error; the stale reference is   *)
(* never ignored.                                                          *)
ReferencesStalePath ==
    /\ IsCall /\ call.top_k > 0
    /\ call.image_path # NoPath
    /\ PathIdx(engine.image_paths, call.image_path) = 0

C12_StaleReference == ReferencesStalePath => call.result.status # "ok"

(***************************************************************************)
(* Properties of the synchronizer: failures.                               *)
(***************************************************************************)
\* A step that is one update() call, whether it returns, saves or raises.
RunStep ==
    /\ pc = "idle"
    /\ lastRun'.kind \in {"done", "saving", "failed"}
    /\ disk' = disk

(* C13: loading the index never fails the run: when the index file does    *)
(* not exist, or exists but is unreadable, the loaded store is empty and   *)
(* update() goes on, treating every live file as new (nothing modified,    *)
(* moved or deleted); the run raises only if the model cannot be loaded    *)
(* for a file there is to embed.                                           *)
C13_LoadNeverFails ==
    [][(RunStep /\ indexFile.kind \in {"absent", "partial"}) =>
        /\ Range(lastRun'.changes.new) = DOMAIN disk
        /\ lastRun'.changes.modified = <<>>
        /\ lastRun'.changes.moved = <<>>
        /\ lastRun'.changes.deleted = {}
        /\ lastRun'.kind = "failed" <=> (~lastRun'.model /\ DOMAIN disk # {})
        /\ lastRun'.kind # "failed" =>
              Range(Store'.paths) = {p \in DOMAIN disk : CanDecode(disk, p)}]_vars

\* A run that found a partially written index file and indexed both files
\* of the directory as new.
C13_Witness ==
    /\ lastRun.kind = "done" /\ lastRun.loaded = "partial"
    /\ lastRun.summary = Counts(2, 0, 0, 0, 2)
    /\ indexFile.kind = "npz"
    /\ Range(indexFile.data.paths) = DOMAIN disk

(* C14: whenever an update() run that detected changes produces a store    *)
(* with zero entries, no index file exists after the run: an existing file *)
(* is removed and none is written.                                         *)
C14_EmptyStoreRemovesFile ==
    [][(UpdateStep /\ any_change(lastRun'.changes) /\ Store'.paths = <<>>) =>
        /\ indexFile'.kind = "absent"
        /\ pc' = "idle"]_vars

\* The last indexed file was deleted and the run removed the index file.
C14_Witness ==
    /\ lastRun.kind = "done" /\ lastRun.loaded = "npz" /\ lastRun.wrote = "removed"
    /\ lastRun.summary = Counts(0, 0, 1, 0, 0)
    /\ indexFile.kind = "absent"

(* C15: a failure while embedding one file does not abort update(): every  *)
(* other new or modified path is still embedded, the resulting store is    *)
(* persisted, and the failed file is skipped (no entry in the resulting    *)
(* store) and counted (it is in the new or modified count it was detected  *)
(* under).                                                                 *)
C15_EmbedFailureSkipped ==
    [][(UpdateStep /\ \E p \in lastRun'.processed : ~CanDecode(disk, p)) =>
        /\ \A q \in lastRun'.processed :
              IF CanDecode(disk, q)
              THEN \E fr \in Frames : HasEntry(Store', q, Digest(disk[q]), Feature(disk[q], fr))
              ELSE q \notin Range(Store'.paths)
        /\ IF Store'.paths = <<>>
           THEN indexFile'.kind = "absent" /\ pc' = "idle"
           ELSE pc' = "saving" /\ pending' = Store'
        /\ lastRun'.summary.new + lastRun'.summary.modified = Cardinality(lastRun'.processed)
        /\ lastRun'.processed = Range(lastRun'.changes.new) \cup Range(lastRun'.changes.modified)]_vars

\* Two new files, one of which cannot be decoded: the other is in the saved
\* index, the summary counts both as new.
C15_Witness ==
    /\ lastRun.kind = "done" /\ lastRun.wrote = "saved"
    /\ lastRun.summary = Counts(2, 0, 0, 0, 1)
    /\ \E p, q \in lastRun.processed :
          /\ ~CanDecode(disk, p) /\ p \notin Range(indexFile.data.paths)
          /\ CanDecode(disk, q) /\ q \in Range(indexFile.data.paths)

(* C16: if the model cannot be loaded and at least one path is new or      *)
(* modified, update() raises and the index file is exactly as it was       *)
(* before the run.                                                         *)
C16_ModelFailurePropagates ==
    [][(RunStep /\ ~lastRun'.model
        /\ (lastRun'.changes.new # <<>> \/ lastRun'.changes.modified # <<>>)) =>
        /\ lastRun'.kind = "failed"
        /\ indexFile' = indexFile
        /\ pc' = "idle"]_vars

\* A run over a saved index that found a modified file and a deleted one
\* and raised: the index still holds both entries.
C16_Witness ==
    /\ lastRun.kind = "failed" /\ ~lastRun.model
    /\ lastRun.summary.modified = 1 /\ lastRun.summary.deleted = 1
    /\ indexFile.kind = "npz" /\ Len(indexFile.data.paths) = 2

(* C17: after any sequence of update() runs starting from no index file,   *)
(* whatever renames, copies, modifications and deletions happen between    *)
(* the runs, no two entries of the store have the same path.               *)
UniquePaths(data) ==
    \A i, j \in DOMAIN data.paths : i # j => data.paths[i] # data.paths[j]

C17_UniquePaths == UniquePaths(indexFile.data) /\ UniquePaths(pending)

\* A saved two-entry index after a run that found one file renamed and the
\* other modified.
C17_Witness ==
    /\ lastRun.kind = "done" /\ lastRun.wrote = "saved"
    /\ lastRun.summary = Counts(0, 1, 0, 1, 2)
    /\ Len(indexFile.data.paths) = 2

(***************************************************************************)
(* One index file, several image directories.  A path is here              *)
(* <<stem, extension, directory>>, the directory a sequence of names from  *)
(* the root.                                                               *)
(***************************************************************************)
WorkDir == <<"w">>
ImgsDir == <<"w", "imgs">>
OtherDir == <<"w", "other">>
DirPaths ==
    {<<"a", ".png", ImgsDir>>, <<"c", ".png", ImgsDir>>, <<"b", ".gif", OtherDir>>}

\* glob(os.path.join(image_dir, '**', ext)): the files under image_dir.
IsPrefix(s, t) == Len(s) <= Len(t) /\ SubSeq(t, 1, Len(s)) = s
UnderDir(p, dir) == IsPrefix(dir, p[3])
Scan(d, image_dir) == [p \in {q \in DOMAIN d : UnderDir(q, image_dir)} |-> d[p]]

DirCreateFile == CreateFileIn(DirPaths, Contents, MaxFiles, FALSE)
DirDeleteFile == DeleteFileIn
DirRenameFile == RenameFileIn(DirPaths)
DirWriteFile == WriteFileIn(Contents, FALSE)

\* ImageIndexer(image_dir, index_file): a new indexer on the same index file.
OpenIndexer ==
    /\ pc = "idle"
    /\ \E dir \in {ImgsDir, OtherDir} :
          /\ dir # proc.image_dir
          /\ proc' = [proc EXCEPT !.image_dir = dir]
    /\ lastRun' = NoRun
    /\ UNCHANGED <<disk, indexFile, pc, pending, engine, call, loader, threads>>

DirUpdate == UpdateIn(Scan(disk, proc.image_dir), BOOLEAN)

DirInit ==
    /\ IndexerInit
    /\ engine = NoEngine
    /\ call = NoCall
    /\ proc = [cwd |-> WorkDir, image_dir |-> ImgsDir]
    /\ loader = NoLoader
    /\ threads = NoThreads

NextDirs ==
    \/ DirCreateFile
    \/ DirDeleteFile
    \/ DirRenameFile
    \/ DirWriteFile
    \/ OpenIndexer
    \/ DirUpdate
    \/ FinishSave
    \/ Crash

SpecDirs == DirInit /\ [][NextDirs]_vars

(* C18: after any update() run that saves the index, every stored path     *)
(* lies under the image directory of that run, also when the previous      *)
(* index was built by indexing another directory into the same index file. *)
C18_PathsUnderBaseDir ==
    (lastRun.kind = "done" /\ lastRun.wrote = "saved") =>
        \A p \in Range(indexFile.data.paths) : UnderDir(p, proc.image_dir)

(***************************************************************************)
(* The paths of an index file: _save_index stores them relative to the     *)
(* working directory or absolute, loading resolves them.  A stored         *)
(* directory is [abs, parts], parts holding names and ".." steps.          *)
(***************************************************************************)
os_sep == "/"

\* The string of an absolute directory, as its separators and names.
PathStr(dir) ==
    IF dir = <<>> THEN <<os_sep>>
    ELSE [i \in 1..(2 * Len(dir)) |-> IF i % 2 = 1 THEN os_sep ELSE dir[i \div 2]]

startswith(str, prefix) == IsPrefix(prefix, str)

\* abs_image_dir.startswith(current_dir + os.sep) or abs_image_dir == current_dir
is_in_current_folder(abs_image_dir, current_dir) ==
    \/ startswith(PathStr(abs_image_dir), PathStr(current_dir) \o <<os_sep>>)
    \/ abs_image_dir = current_dir

CommonLen(s, t) ==
    CHOOSE k \in 0..Min(Len(s), Len(t)) :
        /\ SubSeq(s, 1, k) = SubSeq(t, 1, k)
        /\ k < Min(Len(s), Len(t)) => s[k + 1] # t[k + 1]

\* os.path.relpath(dir, start) of absolute directories.
relpath_dir(dir, start) ==
    LET k == CommonLen(dir, start)
    IN  [abs |-> FALSE,
         parts |-> [i \in 1..(Len(start) - k) |-> ".."] \o SubSeq(dir, k + 1, Len(dir))]
relpath(p, start) == <<p[1], p[2], relpath_dir(p[3], start)>>
AsStored(p) == <<p[1], p[2], [abs |-> TRUE, parts |-> p[3]]>>

\* os.path.normpath of an absolute path: ".." drops the name before it.
RECURSIVE normpath(_, _)
normpath(done, rest) ==
    IF rest = <<>> THEN done
    ELSE IF Head(rest) = ".."
    THEN normpath(IF done = <<>> THEN <<>> ELSE SubSeq(done, 1, Len(done) - 1), Tail(rest))
    ELSE normpath(Append(done, Head(rest)), Tail(rest))

\* os.path.abspath(p) in a process whose working directory is cwd.
abspath(sp, cwd) ==
    <<sp[1], sp[2], IF sp[3].abs THEN sp[3].parts ELSE normpath(<<>>, cwd \o sp[3].parts)>>

\* The arrays np.savez_compressed is given.
save_index(final_data, abs_image_dir, current_dir) ==
    IF is_in_current_folder(abs_image_dir, current_dir)
    THEN [features |-> final_data.features,
          paths |-> [i \in DOMAIN final_data.paths |-> relpath(final_data.paths[i], current_dir)],
          hashes |-> final_data.hashes,
          base_dir |-> relpath_dir(abs_image_dir, current_dir)]
    ELSE [features |-> final_data.features,
          paths |-> [i \in DOMAIN final_data.paths |-> AsStored(final_data.paths[i])],
          hashes |-> final_data.hashes,
          base_dir |-> [abs |-> TRUE, parts |-> abs_image_dir]]

\* indexed_data as _load_or_initialize_index builds it from the archive.
load_index(f, cwd) ==
    IF f.kind # "npz" THEN EmptyIndex
    ELSE [features |-> f.data.features,
          paths |-> [i \in DOMAIN f.data.paths |-> abspath(f.data.paths[i], cwd)],
          hashes |-> f.data.hashes]

PathDirs == {<<>>, WorkDir, ImgsDir, <<"x">>}
FinalPaths == {<<"a", ".png", dir>> : dir \in PathDirs}
FinalStores ==
    {[features |-> [i \in DOMAIN ps |-> Feature(i, 0)],
      paths |-> ps,
      hashes |-> [i \in DOMAIN ps |-> Digest(i)]] :
        ps \in {<<q>> : q \in FinalPaths}
               \cup {qr \in FinalPaths \X FinalPaths : qr[1] # qr[2]}}

\* update() has built final_data (pending) and is about to save it.
PathsInit ==
    /\ disk = <<>>
    /\ indexFile = AbsentFile
    /\ pc = "idle"
    /\ pending \in FinalStores
    /\ lastRun = NoRun
    /\ engine = NoEngine
    /\ call = NoCall
    /\ proc \in [cwd : PathDirs, image_dir : PathDirs]
    /\ loader = NoLoader
    /\ threads = NoThreads

SaveIndex ==
    /\ indexFile.kind = "absent"
    /\ indexFile' = NpzFile(save_index(pending, proc.image_dir, proc.cwd))
    /\ UNCHANGED <<disk, pc, pending, lastRun, engine, call, proc, loader, threads>>

\* ImageSearcher.__init__ in a process with the same working directory.
LoadIndex ==
    /\ indexFile.kind = "npz"
    /\ engine = NoEngine
    /\ engine' = [NoEngine EXCEPT !.image_paths = load_index(indexFile, proc.cwd).paths]
    /\ UNCHANGED <<disk, indexFile, pc, pending, lastRun, call, proc, loader, threads>>

NextPaths ==
    \/ SaveIndex
    \/ LoadIndex

SpecPaths == PathsInit /\ [][NextPaths]_vars

(* C19: saving a store and loading it again in a process with the same     *)
(* working directory yields the same absolute paths, hashes and features   *)
(* in the same order; paths are stored relative to the working directory   *)
(* exactly when the image directory is the working directory or a          *)
(* descendant of it, and absolute otherwise; on load every path is in      *)
(* absolute form.                                                          *)
RoundTrip ==
    indexFile.kind = "npz" =>
        /\ load_index(indexFile, proc.cwd) = pending
        /\ engine # NoEngine => engine.image_paths = pending.paths
        /\ \A p \in Range(load_index(indexFile, proc.cwd).paths) : ".." \notin Range(p[3])

StoredRelativeIffInside ==
    indexFile.kind = "npz" =>
        \A sp \in Range(indexFile.data.paths) :
            ~sp[3].abs <=> IsPrefix(proc.cwd, proc.image_dir)

C19_SaveLoadRoundTrip == RoundTrip /\ StoredRelativeIffInside

(* C20: the entry update() produces for a file depends only on the file's  *)
(* bytes: two runs that embed the same unchanged file (here: two runs      *)
(* from the same index file and directory) give it the same hash and the   *)
(* same embedding, whatever the order in which the files are processed,    *)
(* for every file type.                                                    *)
EntriesOf(data, p) ==
    {<<data.hashes[i], data.features[i]>> : i \in {j \in DOMAIN data.paths : data.paths[j] = p}}

RunsOf(f, d) ==
    LET pth == path_to_hash(load_or_initialize_index(f))
    IN  {update(f, d, newOrder, modOrder, dict, fr) :
            newOrder \in Orders(potentially_new_paths(d, pth)),
            modOrder \in Orders(ModifiedSet(d, pth)),
            dict \in DeletedHashDicts(d, pth),
            fr \in [{p \in potentially_new_paths(d, pth) \cup ModifiedSet(d, pth) :
                        IsVideo(p) /\ CanDecode(d, p)} -> Frames]}

C20_EntryDependsOnBytesOnly ==
    pc = "idle" =>
        \A r1, r2 \in RunsOf(indexFile, disk) :
            \A p \in r1.processed \cap r2.processed :
                EntriesOf(r1.final, p) = EntriesOf(r2.final, p)

(***************************************************************************)
(* Concurrent search calls on one engine.  Each thread runs search or      *)
(* search_by_image step by step: the call, ModelLoader.load (the test of   *)
(* the two fields, the two assignments, the return), the computation over  *)
(* the snapshot, the return.                                               *)
(***************************************************************************)
WorkerThreads == {1, 2}

IdleThread ==
    [pc |-> "idle", op |-> "none", query |-> "", image_path |-> NoPath, useNeg |-> FALSE,
     top_k |-> 0, offset |-> 0, model |-> None, processor |-> None, result |-> Ok(<<>>)]

\* The snapshot the threads share.
ThreadEngine ==
    [image_paths |-> <<RowPath(1), RowPath(2)>>, pos |-> <<6, One>>, neg |-> <<1, 6>>,
     zeroDimOk |-> TRUE]

\* The calls the threads make.
ThreadCalls ==
    [op : {"search"}, query : Queries, image_path : {NoPath, RowPath(1)},
     useNeg : BOOLEAN, top_k : {0, 1}, offset : {0}]
    \cup [op : {"search_by_image"}, query : {""}, image_path : {RowPath(1), StalePath},
          useNeg : BOOLEAN, top_k : {0, 1}, offset : {0}]

\* The test of load() looking at the model field only.
needs_load_model_only(l) == l.model = None

\* `if self.model is None or self.processor is None`
needs_load(l) == l.model = None \/ l.processor = None

\* Whether the call gets to use the model and the processor load() returned:
\* for the text of the query or for the negative keywords.
uses_model(th) ==
    IF th.op = "search" THEN Strip(th.query) # "" \/ th.useNeg ELSE th.useNeg

\* What the method does before it first calls load() or touches the snapshot.
ThreadCall(t) ==
    /\ threads[t].pc = "idle"
    /\ \E c \in ThreadCalls :
          LET th == [IdleThread EXCEPT !.op = c.op, !.query = c.query,
                        !.image_path = c.image_path, !.useNeg = c.useNeg,
                        !.top_k = c.top_k, !.offset = c.offset]
              early ==
                  IF c.op = "search"
                  THEN IF c.top_k <= 0 \/ ~(c.query # "" \/ c.image_path # NoPath)
                       THEN [th EXCEPT !.pc = "returned", !.result = Ok(<<>>)]
                       ELSE [th EXCEPT !.pc = "load"]
                  ELSE IF c.top_k <= 0
                       THEN [th EXCEPT !.pc = "returned", !.result = Ok(<<>>)]
                       ELSE IF PathIdx(engine.image_paths, c.image_path) = 0
                       THEN [th EXCEPT !.pc = "returned", !.result = Raised("ValueError")]
                       ELSE IF c.useNeg THEN [th EXCEPT !.pc = "load"]
                       ELSE [th EXCEPT !.pc = "compute"]
          IN  threads' = [threads EXCEPT ![t] = early]
    /\ UNCHANGED <<disk, indexFile, pc, pending, lastRun, engine, call, proc, loader>>

\* ModelLoader.load, line 30.
LoadCheck(t) ==
    /\ threads[t].pc = "load"
    /\ threads' = [threads EXCEPT ![t].pc =
                      IF needs_load(loader) THEN "from_pretrained" ELSE "load_return"]
    /\ UNCHANGED <<disk, indexFile, pc, pending, lastRun, engine, call, proc, loader>>

\* self.model = ChineseCLIPModel.from_pretrained(...).to(self.device)
LoadModel(t) ==
    /\ threads[t].pc = "from_pretrained"
    /\ loader' = [loader EXCEPT !.model = <<"model">>]
    /\ threads' = [threads EXCEPT ![t].pc = "processor"]
    /\ UNCHANGED <<disk, indexFile, pc, pending, lastRun, engine, call, proc>>

\* self.processor = ChineseCLIPProcessor.from_pretrained(...); self.model.eval()
LoadProcessor(t) ==
    /\ threads[t].pc = "processor"
    /\ loader' = [loader EXCEPT !.processor = <<"processor">>]
    /\ threads' = [threads EXCEPT ![t].pc = "load_return"]
    /\ UNCHANGED <<disk, indexFile, pc, pending, lastRun, engine, call, proc>>

\* return self.model, self.processor
LoadReturn(t) ==
    /\ threads[t].pc = "load_return"
    /\ threads' = [threads EXCEPT ![t] =
                      [@ EXCEPT !.pc = "compute",
                                !.model = loader.model, !.processor = loader.processor]]
    /\ UNCHANGED <<disk, indexFile, pc, pending, lastRun, engine, call, proc, loader>>

\* The rest of the method: the scores against the snapshot, torch.topk, the
\* result list.  A processor or model of None cannot be called.  Nothing is
\* assigned to an attribute of the engine and no tensor operation is in place.
ThreadCompute(t) ==
    /\ threads[t].pc = "compute"
    /\ LET th == threads[t]
       IN  IF uses_model(th) /\ (th.model = None \/ th.processor = None)
           THEN threads' = [threads EXCEPT ![t] =
                               [@ EXCEPT !.pc = "returned", !.result = Raised("TypeError")]]
           ELSE IF th.op = "search"
           THEN \E rank \in Rankings(final_scores(engine.pos, engine.neg, th.useNeg)) :
                   threads' = [threads EXCEPT ![t] =
                      [@ EXCEPT !.pc = "returned",
                                !.result = search(engine,
                                              positive_resolved(engine, th.query, th.image_path),
                                              th.useNeg, th.top_k, th.offset, rank)]]
           ELSE \E rank \in Rankings(final_scores(
                                ImageScores(engine, PathIdx(engine.image_paths, th.image_path)),
                                engine.neg, th.useNeg)) :
                   threads' = [threads EXCEPT ![t] =
                      [@ EXCEPT !.pc = "returned",
                                !.result = search_by_image(engine, th.image_path, th.useNeg,
                                                           th.top_k, th.offset, rank)]]
    /\ UNCHANGED <<disk, indexFile, pc, pending, lastRun, engine, call, proc, loader>>

\* The caller takes the result.
ThreadReturn(t) ==
    /\ threads[t].pc = "returned"
    /\ threads' = [threads EXCEPT ![t] = IdleThread]
    /\ UNCHANGED <<disk, indexFile, pc, pending, lastRun, engine, call, proc, loader>>

ThreadsInit ==
    /\ disk = <<>>
    /\ indexFile = NpzFile([features |-> <<Feature(1, 0), Feature(2, 0)>>,
                            paths |-> ThreadEngine.image_paths,
                            hashes |-> <<Digest(1), Digest(2)>>])
    /\ pc = "idle"
    /\ pending = EmptyIndex
    /\ lastRun = NoRun
    /\ engine = ThreadEngine
    /\ call = NoCall
    /\ proc = NoProc
    /\ loader = NoLoader
    /\ threads = [t \in WorkerThreads |-> IdleThread]

NextThreads ==
    \E t \in WorkerThreads :
        \/ ThreadCall(t)
        \/ LoadCheck(t)
        \/ LoadModel(t)
        \/ LoadProcessor(t)
        \/ LoadReturn(t)
        \/ ThreadCompute(t)
        \/ ThreadReturn(t)

SpecThreads == ThreadsInit /\ [][NextThreads]_vars

\* The results the call of thread record th can give when it runs alone on
\* engine e.
AloneResults(e, th) ==
    IF th.op = "search"
    THEN {search(e, positive_resolved(e, th.query, th.image_path),
                 th.useNeg, th.top_k, th.offset, rank) :
             rank \in Rankings(final_scores(e.pos, e.neg, th.useNeg))}
    ELSE {search_by_image(e, th.image_path, th.useNeg, th.top_k, th.offset, rank) :
             rank \in Rankings(final_scores(
                         ImageScores(e, PathIdx(e.image_paths, th.image_path)),
                         e.neg, th.useNeg))}

(* C21: search and search_by_image never modify the loaded snapshot nor    *)
(* the index file, and under any interleaving of concurrent search calls   *)
(* on one engine each call returns a result it returns when run alone.     *)
C21_ReadOnlyConcurrentSearch ==
    /\ [][engine' = engine /\ indexFile' = indexFile]_vars
    /\ [](\A t \in DOMAIN threads :
             threads[t].pc = "returned" =>
                threads[t].result \in AloneResults(engine, threads[t]))

\* Both threads have returned from calls that used the model, one of them a
\* text search with negative keywords, the other a search by image; the
\* model was loaded while both were in flight.
C21_Witness ==
    /\ DOMAIN threads = WorkerThreads
    /\ \A t \in WorkerThreads :
          /\ threads[t].pc = "returned"
          /\ uses_model(threads[t])
          /\ threads[t].model # None /\ threads[t].processor # None
          /\ Len(threads[t].result.items) = 1
    /\ threads[1].op = "search" /\ threads[2].op = "search_by_image"

(***************************************************************************)
(* The /api/index request handler.  The server runs each request in a      *)
(* thread of its own; the handler constructs an ImageIndexer and calls     *)
(* update(), which loads the index file, later scans the directory,        *)
(* processes the changes and saves.                                        *)
(***************************************************************************)
WatchedPaths == {<<"a", ".png">>, <<"c", ".png">>}
WatchedContents == {1, 2}

\* file: the index file as update() of this request loaded it.
IdleHandler == [pc |-> "idle", file |-> AbsentFile]

RequestCreateFile ==
    CreateFileIn(WatchedPaths, WatchedContents, Cardinality(WatchedPaths), FALSE)
RequestDeleteFile == DeleteFileIn
RequestWriteFile == WriteFileIn(WatchedContents, FALSE)

\* api_index_images up to the first line of update(): nothing in the handler
\* looks at, or waits for, a request that is already running.
HandleIndexRequest(t) ==
    /\ threads[t].pc = "idle"
    /\ threads' = [threads EXCEPT ![t] = [pc |-> "running", file |-> indexFile]]
    /\ UNCHANGED <<disk, indexFile, pc, pending, lastRun, engine, call, proc, loader>>

\* The rest of update(): the scan, _process_changes on the index loaded
\* before, _save_index, and the response.
FinishIndexRequest(t) ==
    /\ threads[t].pc = "running"
    /\ LET f == threads[t].file
           pth == path_to_hash(load_or_initialize_index(f))
       IN  \E newOrder \in Orders(potentially_new_paths(disk, pth)),
              modOrder \in Orders(ModifiedSet(disk, pth)),
              dict \in DeletedHashDicts(disk, pth),
              fr \in [{p \in potentially_new_paths(disk, pth) \cup ModifiedSet(disk, pth) :
                          IsVideo(p) /\ CanDecode(disk, p)} -> Frames] :
             LET r == update(f, disk, newOrder, modOrder, dict, fr)
             IN  indexFile' = CASE r.save = "none" -> indexFile
                                [] r.save = "remove" -> AbsentFile
                                [] r.save = "write" -> NpzFile(r.final)
    /\ threads' = [threads EXCEPT ![t] = IdleHandler]
    /\ UNCHANGED <<disk, pc, pending, lastRun, engine, call, proc, loader>>

RequestsInit ==
    /\ IndexerInit
    /\ engine = NoEngine
    /\ call = NoCall
    /\ proc = NoProc
    /\ loader = NoLoader
    /\ threads = [t \in WorkerThreads |-> IdleHandler]

NextRequests ==
    \/ RequestCreateFile
    \/ RequestDeleteFile
    \/ RequestWriteFile
    \/ \E t \in WorkerThreads : HandleIndexRequest(t)
    \/ \E t \in WorkerThreads : FinishIndexRequest(t)

SpecRequests == RequestsInit /\ [][NextRequests]_vars

(* C22: the /api/index request handler never lets two update() runs        *)
(* against the same index file overlap in time: a second indexing request  *)
(* waits for the first, so no run has loaded an index that another run is  *)
(* about to replace.                                                       *)
C22_UpdateRunsSerialized ==
    Cardinality({t \in DOMAIN threads : threads[t].pc = "running"}) <= 1

(***************************************************************************)
(* Properties of the synchronizer: the change set and the resulting store. *)
(***************************************************************************)
OldPaths(moved) == {moved[i].old_path : i \in DOMAIN moved}
NewPaths(moved) == {moved[i].new_path : i \in DOMAIN moved}
NoRepeat(seq) == \A i, j \in DOMAIN seq : i # j => seq[i] # seq[j]

(* C23: for a stored index with pairwise distinct, non-null hashes and a   *)
(* scan in which every hash is computable, the change set partitions the   *)
(* paths: a stored path absent from the scan is in deletedPaths or the old *)
(* side of a moved pair, never both, never neither; a scanned path not in  *)
(* the store is in newPaths or the new side of a moved pair, never both,   *)
(* never neither; modifiedPaths holds exactly the paths in both whose      *)
(* current hash differs from the stored one; no old path and no new path   *)
(* occurs in two moved pairs.                                              *)
C23_ChangeSetPartition ==
    [][(RunStep /\ DistinctHashes(Loaded)
        /\ \A p \in DOMAIN disk : calculate_hash(disk, p) # None) =>
        LET ch == lastRun'.changes
            stored == Range(Loaded.paths)
            scanned == DOMAIN disk
        IN  /\ \A p \in stored \ scanned : (p \in ch.deleted) # (p \in OldPaths(ch.moved))
            /\ ch.deleted \cup OldPaths(ch.moved) = stored \ scanned
            /\ \A p \in scanned \ stored : (p \in Range(ch.new)) # (p \in NewPaths(ch.moved))
            /\ Range(ch.new) \cup NewPaths(ch.moved) = scanned \ stored
            /\ Range(ch.modified) =
                  {p \in stored \cap scanned : Digest(disk[p]) # LoadedHash[p]}
            /\ NoRepeat(ch.new) /\ NoRepeat(ch.modified)
            /\ \A i, j \in DOMAIN ch.moved :
                  i # j => /\ ch.moved[i].old_path # ch.moved[j].old_path
                           /\ ch.moved[i].new_path # ch.moved[j].new_path]_vars

\* A run over a saved index that paired one gone path with a file as moved
\* and reported another gone path deleted.
C23_Witness ==
    /\ lastRun.kind = "done" /\ lastRun.loaded = "npz" /\ lastRun.wrote = "saved"
    /\ lastRun.summary = Counts(0, 0, 1, 1, 1)
    /\ \E m \in Range(lastRun.changes.moved) :
          /\ m.old_path \notin lastRun.changes.deleted
          /\ m.new_path \in DOMAIN disk
          /\ indexFile.data.paths = <<m.new_path>>

RowsOf(data, p) == {i \in DOMAIN data.paths : data.paths[i] = p}

(* C24: update() gives each path of newPaths and modifiedPaths to the      *)
(* embedder exactly once and never an unchanged or a moved path; the old   *)
(* entry of a modified path is removed and, when embedding succeeds,       *)
(* replaced by exactly one entry with the file's current hash and the      *)
(* fresh embedding (none when it fails); a moved or unchanged path keeps   *)
(* the embedding it had.                                                   *)
C24_EmbedOncePerChangedPath ==
    [][(UpdateStep /\ any_change(lastRun'.changes)) =>
        LET ch == lastRun'.changes
            calls == paths_to_process(ch.new, ch.modified)
            unchanged == {p \in DOMAIN LoadedHash \cap DOMAIN disk :
                             calculate_hash(disk, p) = LoadedHash[p]}
        IN  /\ NoRepeat(calls)
            /\ lastRun'.processed = Range(calls)
            /\ Range(calls) \cap (unchanged \cup NewPaths(ch.moved)) = {}
            /\ \A p \in Range(calls) :
                  IF CanDecode(disk, p)
                  THEN /\ Cardinality(RowsOf(Store', p)) = 1
                       /\ \E fr \in Frames :
                             /\ IsVideo(p) \/ fr = 0
                             /\ HasEntry(Store', p, Digest(disk[p]), Feature(disk[p], fr))
                  ELSE RowsOf(Store', p) = {}
            /\ \A i \in DOMAIN ch.moved :
                  /\ Cardinality(RowsOf(Store', ch.moved[i].new_path)) = 1
                  /\ FeatureOf(Store', ch.moved[i].new_path)
                        = FeatureOf(Loaded, ch.moved[i].old_path)
            /\ \A p \in unchanged :
                  EntriesOf(Store', p) = EntriesOf(Loaded, p)]_vars

\* A saved run that embedded one new and one modified file, both decodable:
\* the index holds one entry for each, the modified one under its new hash.
C24_Witness ==
    /\ lastRun.kind = "done" /\ lastRun.loaded = "npz" /\ lastRun.wrote = "saved"
    /\ lastRun.summary = Counts(1, 1, 0, 0, 2)
    /\ \A p \in lastRun.processed :
          /\ CanDecode(disk, p)
          /\ Cardinality(RowsOf(indexFile.data, p)) = 1
          /\ path_to_hash(indexFile.data)[p] = Digest(disk[p])

(***************************************************************************)
(* Properties of the searcher: rankings.                                   *)
(***************************************************************************)
Max(a, b) == IF a >= b THEN a ELSE b

\* The rows in `rows` by descending score, equal scores by ascending row.
StableRank(scores, rows) ==
    CHOOSE r \in RankingsOf(scores, rows) :
        \A i, j \in DOMAIN r : (i < j /\ scores[r[i]] = scores[r[j]]) => r[i] < r[j]

(* C25: for every indexed X, top_k > 0 and offset >= 0, the final scores   *)
(* pairwise distinct, search_by_image(X, top_k, offset) returns exactly    *)
(* the slice [offset, offset + top_k) of the ranking obtained by removing  *)
(* the row of X and sorting the remaining rows by descending final score,  *)
(* also when negative keywords push X out of the top_k + offset + 1 rows   *)
(* fetched and when fewer than top_k + offset + 1 rows exist.              *)
C25_SliceWithoutSelf ==
    (/\ call.op = "search_by_image" /\ call.top_k > 0
     /\ PathIdx(engine.image_paths, call.image_path) # 0
     /\ Distinct(FinalScores)) =>
        LET x == PathIdx(engine.image_paths, call.image_path)
            others == StableRank(FinalScores, DOMAIN engine.image_paths \ {x})
        IN  call.result =
               Ok(ResultItems(Slice(others, call.offset, call.offset + call.top_k),
                              engine.image_paths, FinalScores))

(* C26: search is a deterministic function of the query and the snapshot:  *)
(* for top_k > 0 and offset >= 0 (and a query that resolves to a positive  *)
(* vector) it returns exactly the slice [offset, offset + top_k) of all N  *)
(* rows sorted by descending final score, equal scores by ascending row    *)
(* index: min(top_k, max(0, N - offset)) results in non-increasing score   *)
(* order, the same sequence on every call.                                 *)
C26_DeterministicRanking ==
    (call.op = "search" /\ call.top_k > 0 /\ call.resolved) =>
        LET n == Len(engine.image_paths)
            all == StableRank(FinalScores, DOMAIN engine.image_paths)
            items == call.result.items
        IN  /\ call.result =
                  Ok(ResultItems(Slice(all, call.offset, call.offset + call.top_k),
                                 engine.image_paths, FinalScores))
            /\ Len(items) = Min(call.top_k, Max(0, n - call.offset))
            /\ \A i, j \in DOMAIN items : i < j => items[i].score >= items[j].score
            /\ \A rank \in Rankings(FinalScores) :
                  search(engine, call.resolved, call.useNeg, call.top_k, call.offset, rank)
                     = call.result

(***************************************************************************)
(* The synchronizer in a directory where a file may be unreadable.         *)
(***************************************************************************)
HashCreateFile == CreateFileIn(Paths, Contents \cup {Unreadable}, MaxFiles, FALSE)
HashDeleteFile == DeleteFileIn
HashRenameFile == RenameFileIn(Paths)
\* Also: a file loses, or gets back, its read permission.
HashWriteFile == WriteFileIn(Contents \cup {Unreadable}, FALSE)

NextHash ==
    \/ HashCreateFile
    \/ HashDeleteFile
    \/ HashRenameFile
    \/ HashWriteFile
    \/ Update
    \/ FinishSave
    \/ Crash

SpecHash == Init /\ [][NextHash]_vars

(* C27: a scanned file whose hash cannot be computed never aborts the run  *)
(* (a run raises only when the model cannot be loaded) and is classified   *)
(* as none of new, modified or moved: if it already has an entry, that     *)
(* entry is kept unchanged (path, hash, embedding); if it has none, no     *)
(* entry is created for it.                                                *)
C27_HashFailureSkipsFile ==
    [][RunStep =>
        \A p \in DOMAIN disk :
            disk[p] = Unreadable =>
                LET ch == lastRun'.changes
                IN  /\ p \notin Range(ch.new) \cup Range(ch.modified) \cup NewPaths(ch.moved)
                    /\ p \notin ch.deleted \cup OldPaths(ch.moved)
                    /\ p \notin lastRun'.processed
                    /\ lastRun'.kind = "failed" => ~lastRun'.model
                    /\ IF p \in DOMAIN LoadedHash
                       THEN /\ Cardinality(RowsOf(Store', p)) = Cardinality(RowsOf(Loaded, p))
                            /\ EntriesOf(Store', p) = EntriesOf(Loaded, p)
                       ELSE RowsOf(Store', p) = {}]_vars

\* A completed run over a directory of two unreadable files, one with an
\* entry made while it could be read, one without: the index holds the one
\* entry.
C27_Witness ==
    /\ lastRun.kind = "done" /\ indexFile.kind = "npz"
    /\ lastRun.summary.total = 1
    /\ \E p, q \in DOMAIN disk :
          /\ disk[p] = Unreadable /\ disk[q] = Unreadable
          /\ p \in Range(indexFile.data.paths)
          /\ q \notin Range(indexFile.data.paths)

(***************************************************************************)
(* Repeated update() runs over a directory that stays as it is, starting   *)
(* from any index file np.load can read: rows of any paths, with or        *)
(* without hashes.  Every file can be hashed and decoded and the model     *)
(* loads; each run that is started completes, and runs keep coming.        *)
(***************************************************************************)
\* An archive written without a 'hashes' array loads with every hash None;
\* a stored hash may be that of bytes no file holds any more.
IndexOfRows(rows) ==
    [features |-> [i \in DOMAIN rows |-> rows[i].feature],
     paths |-> [i \in DOMAIN rows |-> rows[i].path],
     hashes |-> [i \in DOMAIN rows |-> rows[i].hash]]
LoadableIndexes ==
    LET rowsOnFile == {[path |-> p, hash |-> h, feature |-> Feature(1, 0)] :
                          p \in Paths, h \in {None, Digest(1), Digest(2)}}
    IN  {IndexOfRows(rows) : rows \in UNION {[1..n -> rowsOnFile] : n \in 0..MaxFiles}}

ConvergeInit ==
    /\ disk \in UNION {[P -> {1}] : P \in {Q \in SUBSET Paths : Cardinality(Q) <= MaxFiles}}
    /\ indexFile \in {NpzFile(data) : data \in LoadableIndexes}
    /\ pc = "idle"
    /\ pending = EmptyIndex
    /\ lastRun = NoRun
    /\ engine = NoEngine
    /\ call = NoCall
    /\ proc = NoProc
    /\ loader = NoLoader
    /\ threads = NoThreads

ConvergeUpdate == UpdateIn(disk, {TRUE})

NextConverge ==
    \/ ConvergeUpdate
    \/ FinishSave

SpecConverge ==
    /\ ConvergeInit
    /\ [][NextConverge]_vars
    /\ WF_vars(ConvergeUpdate)
    /\ WF_vars(FinishSave)

\* The store has exactly one entry per file of the directory, each with the
\* file's current hash.
Synced(data, d) ==
    /\ Range(data.paths) = DOMAIN d
    /\ UniquePaths(data)
    /\ \A i \in DOMAIN data.paths : data.hashes[i] = calculate_hash(d, data.paths[i])

(* C28: starting from any loadable index file (also one with duplicate     *)
(* hashes or one written without hashes) and a directory that stays fixed, *)
(* every file hashable and embeddable, repeated update() runs eventually   *)
(* reach a fixed point: the store has exactly one entry per scanned file,  *)
(* each with that file's current hash, and every later run reports no      *)
(* changes.                                                                *)
C28_ReachesFixedPoint ==
    <>[](/\ pc = "idle"
         /\ Synced(Loaded, disk)
         /\ lastRun.kind = "done" => ~any_change(lastRun.changes))

(***************************************************************************)
(* One update() run step by step, while other processes write the files    *)
(* of image_dir: the scan with its hashes, then for each path to process   *)
(* the read that decodes the image and the calculate_hash after the        *)
(* embedding, then the save.                                               *)
(***************************************************************************)
IndexerThreads == {1}

\* todo: what is left of paths_to_process; final: final_data so far; feat:
\* the feature of the image read from Head(todo), None before the read.
IdleRun == [pc |-> "idle", todo |-> <<>>, final |-> EmptyIndex, feat |-> None]

\* _process_changes, steps 1 and 2: the rows that stay, moved ones relabelled.
retained_rows(indexed_data, modified_paths, deleted_paths, moved_files) ==
    LET relabelled == [indexed_data EXCEPT
                         !.paths = ApplyMoves(indexed_data.paths,
                                              path_to_idx(indexed_data.paths),
                                              moved_files)]
    IN  KeepRows(relabelled, 1, Range(modified_paths) \cup deleted_paths, EmptyIndex)

\* The other processes: no step of the run holds them back.
RaceCreateFile ==
    /\ Cardinality(DOMAIN disk) < Cardinality(WatchedPaths)
    /\ \E p \in WatchedPaths \ DOMAIN disk, c \in WatchedContents :
          disk' = [q \in DOMAIN disk \cup {p} |-> IF q = p THEN c ELSE disk[q]]
    /\ UNCHANGED <<indexFile, pc, pending, lastRun, engine, call, proc, loader, threads>>

RaceDeleteFile ==
    /\ \E p \in DOMAIN disk : disk' = [q \in DOMAIN disk \ {p} |-> disk[q]]
    /\ UNCHANGED <<indexFile, pc, pending, lastRun, engine, call, proc, loader, threads>>

RaceWriteFile ==
    /\ \E p \in DOMAIN disk : \E c \in WatchedContents \ {disk[p]} :
          disk' = [disk EXCEPT ![p] = c]
    /\ UNCHANGED <<indexFile, pc, pending, lastRun, engine, call, proc, loader, threads>>

\* update() to the start of the embedding loop; it returns at once when the
\* scan finds no change.
RaceScan(t) ==
    /\ threads[t].pc = "idle"
    /\ LET indexed_data == load_or_initialize_index(indexFile)
           pth == path_to_hash(indexed_data)
       IN  \E newOrder \in Orders(potentially_new_paths(disk, pth)),
              modOrder \in Orders(ModifiedSet(disk, pth)),
              dict \in DeletedHashDicts(disk, pth) :
             LET ch == scan_and_compare(disk, pth, newOrder, modOrder, dict)
             IN  IF any_change(ch)
                 THEN threads' = [threads EXCEPT ![t] =
                         [pc |-> "embedding",
                          todo |-> paths_to_process(ch.new, ch.modified),
                          final |-> retained_rows(indexed_data, ch.modified, ch.deleted, ch.moved),
                          feat |-> None]]
                 ELSE threads' = threads
    /\ UNCHANGED <<disk, indexFile, pc, pending, lastRun, engine, call, proc, loader>>

\* Image.open(path) and the model: the feature of the bytes now at path.  A
\* file that is gone or cannot be decoded is skipped.
RaceRead(t) ==
    /\ threads[t].pc = "embedding"
    /\ threads[t].todo # <<>>
    /\ LET path == Head(threads[t].todo)
       IN  IF CanDecode(disk, path)
           THEN threads' = [threads EXCEPT ![t] =
                               [@ EXCEPT !.pc = "hashing", !.feat = Feature(disk[path], 0)]]
           ELSE threads' = [threads EXCEPT ![t] = [@ EXCEPT !.todo = Tail(@)]]
    /\ UNCHANGED <<disk, indexFile, pc, pending, lastRun, engine, call, proc, loader>>

\* final_data["hashes"].append(calculate_hash(path)): the hash of the bytes
\* at path after the embedding.
RaceHash(t) ==
    /\ threads[t].pc = "hashing"
    /\ LET path == Head(threads[t].todo)
       IN  threads' = [threads EXCEPT ![t] =
              [@ EXCEPT !.pc = "embedding", !.todo = Tail(@), !.feat = None,
                        !.final = AppendEntry(threads[t].final, threads[t].feat, path,
                                              calculate_hash(disk, path))]]
    /\ UNCHANGED <<disk, indexFile, pc, pending, lastRun, engine, call, proc, loader>>

\* _save_index(final_data) and the return.
RaceSave(t) ==
    /\ threads[t].pc = "embedding"
    /\ threads[t].todo = <<>>
    /\ indexFile' = IF save_kind(threads[t].final) = "remove" THEN AbsentFile
                    ELSE NpzFile(threads[t].final)
    /\ threads' = [threads EXCEPT ![t] = IdleRun]
    /\ UNCHANGED <<disk, pc, pending, lastRun, engine, call, proc, loader>>

RaceInit ==
    /\ IndexerInit
    /\ engine = NoEngine
    /\ call = NoCall
    /\ proc = NoProc
    /\ loader = NoLoader
    /\ threads = [t \in IndexerThreads |-> IdleRun]

NextRace ==
    \/ RaceCreateFile
    \/ RaceDeleteFile
    \/ RaceWriteFile
    \/ \E t \in IndexerThreads :
          \/ RaceScan(t)
          \/ RaceRead(t)
          \/ RaceHash(t)
          \/ RaceSave(t)

SpecRace == RaceInit /\ [][NextRace]_vars

\* The bytes a stored feature was computed from.
EmbeddedBytes(f) == f[2]

(* C29: for every entry that update() persists, the stored hash is the     *)
(* hash of the same bytes the stored embedding was computed from, also     *)
(* when a file is overwritten on disk while the run is in progress: a      *)
(* stale embedding is never stored under the hash of newer content.        *)
C29_HashOfEmbeddedBytes ==
    \A i \in DOMAIN indexFile.data.paths :
        indexFile.data.hashes[i] = Digest(EmbeddedBytes(indexFile.data.features[i]))

\* The rows of `data`, in order, whose path is not in `removed`.
RetainedIdx(data, removed) ==
    SelectSeq([i \in 1..Len(data.paths) |-> i], LAMBDA i : data.paths[i] \notin removed)

\* The path a stored path has after the moves.
MovedTo(moved, p) ==
    IF p \in OldPaths(moved)
    THEN (CHOOSE m \in Range(moved) : m.old_path = p).new_path
    ELSE p

(* C30: update() keeps the relative order of all retained entries          *)
(* (unchanged and moved ones, a moved entry at the row position of its old *)
(* path) and appends every re-embedded entry after all retained ones, new  *)
(* paths before modified paths; paths, hashes and features stay            *)
(* co-indexed: equal length, row i of each describing the same file.       *)
C30_OrderPreserved ==
    [][(UpdateStep /\ any_change(lastRun'.changes)) =>
        LET ch == lastRun'.changes
            r == RetainedIdx(Loaded, Range(ch.modified) \cup ch.deleted)
            k == Len(r)
            embedded == SelectSeq(paths_to_process(ch.new, ch.modified),
                                  LAMBDA p : CanDecode(disk, p))
            new == Store'
        IN  /\ Len(new.paths) = Len(new.hashes) /\ Len(new.paths) = Len(new.features)
            /\ Len(new.paths) = k + Len(embedded)
            /\ \A j \in 1..k :
                  /\ new.paths[j] = MovedTo(ch.moved, Loaded.paths[r[j]])
                  /\ new.hashes[j] = Loaded.hashes[r[j]]
                  /\ new.features[j] = Loaded.features[r[j]]
            /\ \A j \in 1..Len(embedded) :
                  /\ new.paths[k + j] = embedded[j]
                  /\ new.hashes[k + j] = Digest(disk[embedded[j]])
                  /\ \E fr \in Frames : new.features[k + j] = Feature(disk[embedded[j]], fr)]_vars

\* A saved run over a two-row index whose first file was renamed: the moved
\* entry is still the first row, the unchanged one the second.
C30_Witness ==
    /\ lastRun.kind = "done" /\ lastRun.loaded = "npz" /\ lastRun.wrote = "saved"
    /\ lastRun.summary = Counts(0, 0, 0, 1, 2)
    /\ Len(indexFile.data.paths) = 2
    /\ indexFile.data.paths[1] = lastRun.changes.moved[1].new_path
    /\ indexFile.data.paths[2] \in DOMAIN disk

====
